---------------------------- MODULE Spec2Model ----------------------------
(***************************************************************************)
(* A model of the set-associative cache simulator of src/cache.py: the     *)
(* Cache class (address masks, per-set tag lines, per-line directory bits, *)
(* per-set LRU queue, hit / miss / access counters) driven by read and     *)
(* write calls; analyse, which decodes trace records and hands them to an  *)
(* instruction cache and a data cache; and the address decoding alone.     *)
(***************************************************************************)
EXTENDS Integers, Sequences, FiniteSets

(***************************************************************************)
(* Bounds of the model and constants of the program.                       *)
(***************************************************************************)

\* Addresses handed to read / write are drawn from 0..MaxAddress.
MaxAddress == 7

\* Calls are accepted while dr_accesses + dw_accesses stays within this cap.
MaxAccesses == 4

\* The address width calc_masks works with (cache.py line 35).
AddressBits == 27

\* The largest burst count of a trace record: a two-bit field (cache.py line 179).
MaxBurst == 3

\* Python's None in a cache line: a value no tag can take (tags are >= 0).
None == -1

\* The (l, k, n) triples a cache is constructed with.
Geometries == { <<2, 2, 1>>, <<2, 1, 2>>, <<2, 2, 2>> }

Addresses == 0..MaxAddress

\* analyse consumes at most this many trace records.
MaxRecords == 2

\* The address decoding is tried on l = 2^a and n = 2^b for a, b in 0..MaxExponent.
MaxExponent == 14

\* The shifts of analyse (cache.py lines 180 and 182).
burst_shift == 27

access_shift == 29

\* The largest access-type code of a trace record: a three-bit field (cache.py line 181).
MaxAccessCode == 7

Bursts == 0..MaxBurst

VARIABLES
    sets,          \* sets[set_num][line]: the tag held by the line, or None
    lru_queue,     \* lru_queue[set_num]: the deque of tags, LRU at the front
    dirs,          \* dirs[set_num][line][offset]: the sub-block is resident
    tag_mask, set_mask, offset_mask, set_shift, tag_shift,
    hits, misses, dr_accesses, dw_accesses,
    unexpected,    \* 'Unexpected: Tag was not in lru queue' has been printed
    crashed,       \* an exception has left read / write uncaught
    last,          \* the last call: its arguments, the branch it took, the tags it evicted
    recency,       \* history: per set, the resident tags by their last allocation or hit
    instruction_cache, data_cache,   \* the two caches main hands to analyse
    handled,       \* the trace record analyse handled last, and the call it made
    probe          \* a geometry and addresses to decode, and what they decode to

cacheVars == << sets, lru_queue, dirs, tag_mask, set_mask, offset_mask, set_shift,
                tag_shift, hits, misses, dr_accesses, dw_accesses, unexpected,
                crashed, last, recency >>

traceVars == << instruction_cache, data_cache, handled >>

vars == << cacheVars, traceVars, probe >>

\* The value of a variable the specification at hand does not use.
Unused == <<>>

(***************************************************************************)
(* Python primitives used by the code.                                     *)
(***************************************************************************)

RECURSIVE Pow2(_)
Pow2(e) == IF e <= 0 THEN 1 ELSE 2 * Pow2(e - 1)

\* int(log2(x)) for an integer x >= 1.
RECURSIVE IntLog2(_)
IntLog2(x) == IF x <= 1 THEN 0 ELSE 1 + IntLog2(x \div 2)

\* n * 'c': the character repeated n times, the empty string when n <= 0.
Repeat(n, c) == [i \in 1..n |-> c]

\* int(s, 2) of a string of '0' and '1' characters (0 and 1 here).
RECURSIVE ParseBinary(_)
ParseBinary(s) ==
    IF s = <<>> THEN 0
    ELSE 2 * ParseBinary(SubSeq(s, 1, Len(s) - 1)) + s[Len(s)]

\* a & b on non-negative integers.
RECURSIVE BitAnd(_, _)
BitAnd(a, b) ==
    IF a = 0 \/ b = 0 THEN 0
    ELSE (a % 2) * (b % 2) + 2 * BitAnd(a \div 2, b \div 2)

\* a >> s.
ShiftRight(a, s) == a \div Pow2(s)

\* x in list, for a list indexed from 0.
Contains(list, x) == \E i \in DOMAIN list : list[i] = x

\* list.index(x): the first index holding x.
IndexOf(list, x) ==
    CHOOSE i \in DOMAIN list : list[i] = x /\ \A j \in DOMAIN list : j < i => list[j] # x

\* deque.remove(x): the deque without its first x.
RemoveFirst(queue, x) ==
    LET i == CHOOSE j \in 1..Len(queue) :
                 queue[j] = x /\ \A m \in 1..(j - 1) : queue[m] # x
    IN  SubSeq(queue, 1, i - 1) \o SubSeq(queue, i + 1, Len(queue))

InQueue(queue, x) == \E i \in 1..Len(queue) : queue[i] = x

(***************************************************************************)
(* Cache.calc_masks and Cache.__init__.                                    *)
(***************************************************************************)

calc_masks(l, n) ==
    LET offset  == IntLog2(l)
        set_num == IntLog2(n)
        tag     == AddressBits - offset - set_num
    IN  [ offset_mask |-> ParseBinary(Repeat(AddressBits - offset, 0) \o Repeat(offset, 1)),
          set_mask    |-> ParseBinary(Repeat(AddressBits - set_num, 0) \o Repeat(set_num, 1)
                                        \o Repeat(offset, 0)),
          tag_mask    |-> ParseBinary(Repeat(tag, 1) \o Repeat(set_num + offset, 0)) ]

\* The object Cache(l, k, n) builds.
NewCache(l, k, n) ==
    LET masks == calc_masks(l, n)
    IN  [ sets        |-> [s \in 0..(n - 1) |-> [i \in 0..(k - 1) |-> None]],
          lru_queue   |-> [s \in 0..(n - 1) |-> <<>>],
          dirs        |-> [s \in 0..(n - 1) |->
                             [i \in 0..(k - 1) |-> [o \in 0..(l - 1) |-> FALSE]]],
          tag_mask    |-> masks.tag_mask,
          set_mask    |-> masks.set_mask,
          offset_mask |-> masks.offset_mask,
          set_shift   |-> IntLog2(l),
          tag_shift   |-> IntLog2(n) + IntLog2(l),
          hits        |-> 0,
          misses      |-> 0,
          dr_accesses |-> 0,
          dw_accesses |-> 0,
          unexpected  |-> FALSE,
          crashed     |-> FALSE ]

(***************************************************************************)
(* The address fields read and write compute.                              *)
(***************************************************************************)

OffsetOf(self, address) == BitAnd(address, self.offset_mask)

SetOf(self, address) == ShiftRight(BitAnd(address, self.set_mask), self.set_shift)

TagOf(self, address) == ShiftRight(BitAnd(address, self.tag_mask), self.tag_shift)

(***************************************************************************)
(* Cache.lru_reshuffle, Cache.offset_miss, Cache.tag_miss.                 *)
(***************************************************************************)

\* lru_reshuffle without the remove: the tag is appended again.
lru_reshuffle_appends(self, set_num, tag) ==
    [self EXCEPT !.lru_queue[set_num] = Append(self.lru_queue[set_num], tag)]

lru_reshuffle(self, set_num, tag) ==
    LET queue == self.lru_queue[set_num]
    IN  IF InQueue(queue, tag)
        THEN [self EXCEPT !.lru_queue[set_num] = Append(RemoveFirst(queue, tag), tag)]
        ELSE [self EXCEPT !.lru_queue[set_num] = Append(queue, tag),
                          !.unexpected = TRUE]

offset_miss(self, set_num, tag_index, offset) ==
    [self EXCEPT !.dirs[set_num][tag_index][offset] = TRUE,
                 !.misses = self.misses + 1]

\* The finally block without the directory bit.
Install_unmarked(self, tag, set_num, offset, new_tag_index) ==
    [self EXCEPT !.sets[set_num][new_tag_index] = tag,
                 !.lru_queue[set_num] = Append(self.lru_queue[set_num], tag)]

\* The finally block without the append to the LRU queue.
Install_unqueued(self, tag, set_num, offset, new_tag_index) ==
    [self EXCEPT !.sets[set_num][new_tag_index] = tag,
                 !.dirs[set_num][new_tag_index][offset] = TRUE]

\* The finally block of tag_miss, with new_tag_index bound.
Install(self, tag, set_num, offset, new_tag_index) ==
    [self EXCEPT !.sets[set_num][new_tag_index] = tag,
                 !.dirs[set_num][new_tag_index][offset] = TRUE,
                 !.lru_queue[set_num] = Append(self.lru_queue[set_num], tag)]

\* tag_miss with pop() for popleft(): the most recently used tag is evicted.
tag_miss_evicts_mru(self, tag, set_num, offset) ==
    LET line  == self.sets[set_num]
        queue == self.lru_queue[set_num]
    IN  IF Contains(line, None)
        THEN Install(self, tag, set_num, offset, IndexOf(line, None))
        ELSE IF queue = <<>>
        THEN [self EXCEPT !.crashed = TRUE]
        ELSE LET evicted_tag == queue[Len(queue)]
                 popped      == [self EXCEPT !.lru_queue[set_num] =
                                                 SubSeq(queue, 1, Len(queue) - 1)]
             IN  IF Contains(line, evicted_tag)
                 THEN Install(popped, tag, set_num, offset, IndexOf(line, evicted_tag))
                 ELSE [popped EXCEPT !.crashed = TRUE]

tag_miss(self, tag, set_num, offset) ==
    LET line  == self.sets[set_num]
        queue == self.lru_queue[set_num]
    IN  IF Contains(line, None)
        THEN Install(self, tag, set_num, offset, IndexOf(line, None))
        ELSE IF queue = <<>>
        THEN \* popleft raises IndexError; the finally block then fails too
             [self EXCEPT !.crashed = TRUE]
        ELSE LET evicted_tag == Head(queue)
                 popped      == [self EXCEPT !.lru_queue[set_num] = Tail(queue)]
             IN  IF Contains(line, evicted_tag)
                 THEN Install(popped, tag, set_num, offset, IndexOf(line, evicted_tag))
                 ELSE \* index raises ValueError inside the handler
                      [popped EXCEPT !.crashed = TRUE]

(***************************************************************************)
(* Cache.read and Cache.write.                                             *)
(***************************************************************************)

\* read whose hit branch leaves out lru_reshuffle.
read_hit_untouched(self, address, burst_count) ==
    LET counted == [self EXCEPT !.dr_accesses = self.dr_accesses + 1 + burst_count]
        offset  == OffsetOf(self, address)
        set_num == SetOf(self, address)
        tag     == TagOf(self, address)
    IN  IF ~Contains(counted.sets[set_num], tag)
        THEN tag_miss(counted, tag, set_num, offset)
        ELSE LET tag_index == IndexOf(counted.sets[set_num], tag)
             IN  IF ~counted.dirs[set_num][tag_index][offset]
                 THEN LET missed == offset_miss(counted, set_num, tag_index, offset)
                      IN  [missed EXCEPT !.hits = missed.hits + burst_count,
                                         !.misses = missed.misses + 1]
                 ELSE [counted EXCEPT !.hits = counted.hits + 1 + burst_count]

\* read that, like write, counts the miss and the burst after tag_miss.
read_counts_tag_miss(self, address, burst_count) ==
    LET counted == [self EXCEPT !.dr_accesses = self.dr_accesses + 1 + burst_count]
        offset  == OffsetOf(self, address)
        set_num == SetOf(self, address)
        tag     == TagOf(self, address)
    IN  IF ~Contains(counted.sets[set_num], tag)
        THEN LET missed == tag_miss(counted, tag, set_num, offset)
             IN  [missed EXCEPT !.hits = missed.hits + burst_count,
                                !.misses = missed.misses + 1]
        ELSE LET tag_index == IndexOf(counted.sets[set_num], tag)
             IN  IF ~counted.dirs[set_num][tag_index][offset]
                 THEN LET missed == offset_miss(counted, set_num, tag_index, offset)
                      IN  [missed EXCEPT !.hits = missed.hits + burst_count,
                                         !.misses = missed.misses + 1]
                 ELSE LET touched == lru_reshuffle(counted, set_num, tag)
                      IN  [touched EXCEPT !.hits = touched.hits + 1 + burst_count]

\* read whose hits += 1 + burst_count stands after the if, not in the else.
read_counts_hit_always(self, address, burst_count) ==
    LET counted == [self EXCEPT !.dr_accesses = self.dr_accesses + 1 + burst_count]
        offset  == OffsetOf(self, address)
        set_num == SetOf(self, address)
        tag     == TagOf(self, address)
    IN  IF ~Contains(counted.sets[set_num], tag)
        THEN tag_miss(counted, tag, set_num, offset)
        ELSE LET tag_index == IndexOf(counted.sets[set_num], tag)
             IN  IF ~counted.dirs[set_num][tag_index][offset]
                 THEN LET missed == offset_miss(counted, set_num, tag_index, offset)
                      IN  [missed EXCEPT !.hits = missed.hits + burst_count
                                                    + 1 + burst_count,
                                         !.misses = missed.misses + 1]
                 ELSE LET touched == lru_reshuffle(counted, set_num, tag)
                      IN  [touched EXCEPT !.hits = touched.hits + 1 + burst_count]

\* read whose offset-miss branch calls lru_reshuffle too.
read_offset_miss_touches(self, address, burst_count) ==
    LET counted == [self EXCEPT !.dr_accesses = self.dr_accesses + 1 + burst_count]
        offset  == OffsetOf(self, address)
        set_num == SetOf(self, address)
        tag     == TagOf(self, address)
    IN  IF ~Contains(counted.sets[set_num], tag)
        THEN tag_miss(counted, tag, set_num, offset)
        ELSE LET tag_index == IndexOf(counted.sets[set_num], tag)
             IN  IF ~counted.dirs[set_num][tag_index][offset]
                 THEN LET missed == lru_reshuffle(
                                        offset_miss(counted, set_num, tag_index, offset),
                                        set_num, tag)
                      IN  [missed EXCEPT !.hits = missed.hits + burst_count,
                                         !.misses = missed.misses + 1]
                 ELSE LET touched == lru_reshuffle(counted, set_num, tag)
                      IN  [touched EXCEPT !.hits = touched.hits + 1 + burst_count]

\* read that counts requests: dr_accesses += 1 whatever the burst count.
read_counts_requests(self, address, burst_count) ==
    LET counted == [self EXCEPT !.dr_accesses = self.dr_accesses + 1]
        offset  == OffsetOf(self, address)
        set_num == SetOf(self, address)
        tag     == TagOf(self, address)
    IN  IF ~Contains(counted.sets[set_num], tag)
        THEN tag_miss(counted, tag, set_num, offset)
        ELSE LET tag_index == IndexOf(counted.sets[set_num], tag)
             IN  IF ~counted.dirs[set_num][tag_index][offset]
                 THEN LET missed == offset_miss(counted, set_num, tag_index, offset)
                      IN  [missed EXCEPT !.hits = missed.hits + burst_count,
                                         !.misses = missed.misses + 1]
                 ELSE LET touched == lru_reshuffle(counted, set_num, tag)
                      IN  [touched EXCEPT !.hits = touched.hits + 1 + burst_count]

read(self, address, burst_count) ==
    LET counted == [self EXCEPT !.dr_accesses = self.dr_accesses + 1 + burst_count]
        offset  == OffsetOf(self, address)
        set_num == SetOf(self, address)
        tag     == TagOf(self, address)
    IN  IF ~Contains(counted.sets[set_num], tag)
        THEN tag_miss(counted, tag, set_num, offset)
        ELSE LET tag_index == IndexOf(counted.sets[set_num], tag)
             IN  IF ~counted.dirs[set_num][tag_index][offset]
                 THEN LET missed == offset_miss(counted, set_num, tag_index, offset)
                      IN  [missed EXCEPT !.hits = missed.hits + burst_count,
                                         !.misses = missed.misses + 1]
                 ELSE LET touched == lru_reshuffle(counted, set_num, tag)
                      IN  [touched EXCEPT !.hits = touched.hits + 1 + burst_count]

\* write whose tag-miss branch, like read's, leaves the miss uncounted.
write_miss_uncounted(self, address, burst_count) ==
    LET counted == [self EXCEPT !.dw_accesses = self.dw_accesses + 1 + burst_count]
        offset  == OffsetOf(self, address)
        set_num == SetOf(self, address)
        tag     == TagOf(self, address)
    IN  IF ~Contains(counted.sets[set_num], tag)
        THEN tag_miss(counted, tag, set_num, offset)
        ELSE LET tag_index == IndexOf(counted.sets[set_num], tag)
                 marked    == [counted EXCEPT !.dirs[set_num][tag_index][offset] = TRUE]
                 touched   == lru_reshuffle(marked, set_num, tag)
             IN  [touched EXCEPT !.hits = touched.hits + 1 + burst_count]

\* write that, like read, counts a miss when the offset is not resident.
write_checks_offset(self, address, burst_count) ==
    LET counted == [self EXCEPT !.dw_accesses = self.dw_accesses + 1 + burst_count]
        offset  == OffsetOf(self, address)
        set_num == SetOf(self, address)
        tag     == TagOf(self, address)
    IN  IF ~Contains(counted.sets[set_num], tag)
        THEN LET missed == tag_miss(counted, tag, set_num, offset)
             IN  IF missed.crashed
                 THEN missed
                 ELSE [missed EXCEPT !.hits = missed.hits + burst_count,
                                     !.misses = missed.misses + 1]
        ELSE LET tag_index == IndexOf(counted.sets[set_num], tag)
             IN  IF ~counted.dirs[set_num][tag_index][offset]
                 THEN LET missed == offset_miss(counted, set_num, tag_index, offset)
                      IN  [missed EXCEPT !.hits = missed.hits + burst_count]
                 ELSE LET touched == lru_reshuffle(counted, set_num, tag)
                      IN  [touched EXCEPT !.hits = touched.hits + 1 + burst_count]

write(self, address, burst_count) ==
    LET counted == [self EXCEPT !.dw_accesses = self.dw_accesses + 1 + burst_count]
        offset  == OffsetOf(self, address)
        set_num == SetOf(self, address)
        tag     == TagOf(self, address)
    IN  IF ~Contains(counted.sets[set_num], tag)
        THEN LET missed == tag_miss(counted, tag, set_num, offset)
             IN  IF missed.crashed
                 THEN missed
                 ELSE [missed EXCEPT !.hits = missed.hits + burst_count,
                                     !.misses = missed.misses + 1]
        ELSE LET tag_index == IndexOf(counted.sets[set_num], tag)
                 marked    == [counted EXCEPT !.dirs[set_num][tag_index][offset] = TRUE]
                 touched   == lru_reshuffle(marked, set_num, tag)
             IN  [touched EXCEPT !.hits = touched.hits + 1 + burst_count]

\* The branch of read / write a call takes: lines 50, 54 and 58 of read,
\* lines 69 and 73 of write.
Branch(self, op, address) ==
    LET offset  == OffsetOf(self, address)
        set_num == SetOf(self, address)
        tag     == TagOf(self, address)
    IN  IF ~Contains(self.sets[set_num], tag) THEN "tag_miss"
        ELSE IF op = "write" THEN "tag_present"
        ELSE IF ~self.dirs[set_num][IndexOf(self.sets[set_num], tag)][offset]
        THEN "offset_miss"
        ELSE "hit"

(***************************************************************************)
(* History kept beside the cache, for stating properties of a call.        *)
(***************************************************************************)

\* The tags held by the lines of a set.
Tags(line) == {line[i] : i \in DOMAIN line} \ {None}

\* The tags of a queue.
QueueTags(queue) == {queue[i] : i \in 1..Len(queue)}

\* A queue without tag, its other elements in order.
Without(queue, tag) ==
    LET Other(x) == x # tag
    IN  SelectSeq(queue, Other)

\* A queue with tag moved (or added) to its tail.
MovedToTail(queue, tag) == Without(queue, tag) \o <<tag>>

\* The recency history of a set after a call on tag that took the given branch
\* and left the set's lines as line: an allocation, a read hit and a write to a
\* present tag are the events that count; tags no line holds are forgotten.
Recorded(order, line, tag, branch) ==
    LET Resident(x) == Contains(line, x)
    IN  SelectSeq(IF branch = "offset_miss" THEN order ELSE MovedToTail(order, tag),
                  Resident)

(***************************************************************************)
(* The state machine: a constructed cache, then read and write calls.      *)
(***************************************************************************)

Self ==
    [ sets |-> sets, lru_queue |-> lru_queue, dirs |-> dirs,
      tag_mask |-> tag_mask, set_mask |-> set_mask, offset_mask |-> offset_mask,
      set_shift |-> set_shift, tag_shift |-> tag_shift,
      hits |-> hits, misses |-> misses,
      dr_accesses |-> dr_accesses, dw_accesses |-> dw_accesses,
      unexpected |-> unexpected, crashed |-> crashed ]

Becomes(c) ==
    /\ sets' = c.sets
    /\ lru_queue' = c.lru_queue
    /\ dirs' = c.dirs
    /\ tag_mask' = c.tag_mask
    /\ set_mask' = c.set_mask
    /\ offset_mask' = c.offset_mask
    /\ set_shift' = c.set_shift
    /\ tag_shift' = c.tag_shift
    /\ hits' = c.hits
    /\ misses' = c.misses
    /\ dr_accesses' = c.dr_accesses
    /\ dw_accesses' = c.dw_accesses
    /\ unexpected' = c.unexpected
    /\ crashed' = c.crashed

\* The state after Cache(g[1], g[2], g[3]).
Constructed(g) ==
        LET c == NewCache(g[1], g[2], g[3])
        IN  /\ sets = c.sets
            /\ lru_queue = c.lru_queue
            /\ dirs = c.dirs
            /\ tag_mask = c.tag_mask
            /\ set_mask = c.set_mask
            /\ offset_mask = c.offset_mask
            /\ set_shift = c.set_shift
            /\ tag_shift = c.tag_shift
            /\ hits = c.hits
            /\ misses = c.misses
            /\ dr_accesses = c.dr_accesses
            /\ dw_accesses = c.dw_accesses
            /\ unexpected = c.unexpected
            /\ crashed = c.crashed
            /\ last = [op |-> "none", address |-> 0, burst_count |-> 0,
                       branch |-> "none", evicted |-> {}]
            /\ recency = [s \in DOMAIN c.sets |-> <<>>]
            /\ instruction_cache = Unused
            /\ data_cache = Unused
            /\ handled = Unused
            /\ probe = Unused

Init == \E g \in Geometries : Constructed(g)

\* (l, k, n) triples with an l, a k or an n that is no power of two.
UncheckedGeometries == { <<3, 1, 1>>, <<2, 3, 1>>, <<2, 1, 3>> }

\* A cache constructed with such a triple: __init__ checks nothing.
UncheckedInit == \E g \in UncheckedGeometries : Constructed(g)

\* No single cache is under test.
NoCache ==
    /\ sets = Unused
    /\ lru_queue = Unused
    /\ dirs = Unused
    /\ tag_mask = Unused
    /\ set_mask = Unused
    /\ offset_mask = Unused
    /\ set_shift = Unused
    /\ tag_shift = Unused
    /\ hits = Unused
    /\ misses = Unused
    /\ dr_accesses = Unused
    /\ dw_accesses = Unused
    /\ unexpected = Unused
    /\ crashed = Unused
    /\ last = Unused
    /\ recency = Unused

Accepts(burst_count) ==
    /\ ~crashed
    /\ dr_accesses + dw_accesses + 1 + burst_count <= MaxAccesses

\* The record of a call that takes the cache from Self to c.
Called(c, op, address, burst_count) ==
    LET set_num == SetOf(Self, address)
    IN  /\ last' = [op |-> op, address |-> address, burst_count |-> burst_count,
                    branch |-> Branch(Self, op, address),
                    evicted |-> Tags(sets[set_num]) \ Tags(c.sets[set_num])]
        /\ recency' = [recency EXCEPT ![set_num] =
                          Recorded(recency[set_num], c.sets[set_num],
                                   TagOf(Self, address), Branch(Self, op, address))]

Read ==
    \E address \in Addresses, burst_count \in Bursts :
        /\ Accepts(burst_count)
        /\ Becomes(read(Self, address, burst_count))
        /\ Called(read(Self, address, burst_count), "read", address, burst_count)
        /\ UNCHANGED << traceVars, probe >>

Write ==
    \E address \in Addresses, burst_count \in Bursts :
        /\ Accepts(burst_count)
        /\ Becomes(write(Self, address, burst_count))
        /\ Called(write(Self, address, burst_count), "write", address, burst_count)
        /\ UNCHANGED << traceVars, probe >>

Next == Read \/ Write

Spec == Init /\ [][Next]_vars

UncheckedSpec == UncheckedInit /\ [][Next]_vars

(***************************************************************************)
(* analyse: the loop over the trace, one record a step.                    *)
(***************************************************************************)

\* A 32-bit trace record and the masks of analyse are kept as their 32 binary
\* digits, most significant first (Python's integers have no width; the
\* integers of the model checker stop below 2^31).

\* The digits of v, w of them.
RECURSIVE Digits(_, _)
Digits(v, w) == IF w = 0 THEN <<>> ELSE Append(Digits(v \div 2, w - 1), v % 2)

\* a & b on 32-digit words.
WordAnd(a, b) == [i \in 1..Len(a) |-> a[i] * b[i]]

\* a >> s on a 32-digit word.
WordShiftRight(a, s) == Repeat(s, 0) \o SubSeq(a, 1, Len(a) - s)

\* The integer a word stands for (below 2^31 wherever it is used).
WordValue(a) == ParseBinary(a)

\* int('00011000000000000000000000000000', 2)
burst_mask == Repeat(3, 0) \o Repeat(2, 1) \o Repeat(27, 0)

\* int('11100000000000000000000000000000', 2)
access_mask == Repeat(3, 1) \o Repeat(29, 0)

\* int('00000000011111111111111111111111', 2)
address_mask == Repeat(9, 0) \o Repeat(23, 1)

\* access_lookup.get(code): "None" stands for Python's None.
access_lookup(code) ==
    CASE code = 4 -> "IR"
      [] code = 6 -> "DR"
      [] code = 7 -> "DW"
      [] OTHER    -> "None"

\* What analyse hands to a cache when access_lookup.get gives None: nothing.
NoCall == [access_type |-> "None"]

\* analyse whose lookup takes code 5 for a data read too.
analyse_maps_code_5(ir_cache, d_cache, mem) ==
    LET code        == WordValue(WordShiftRight(WordAnd(mem, access_mask), access_shift))
        access_type == IF code = 5 THEN "DR" ELSE access_lookup(code)
        address     == WordValue(WordAnd(mem, address_mask))
        burst_count == WordValue(WordShiftRight(WordAnd(mem, burst_mask), burst_shift))
        call        == [access_type |-> access_type, address |-> address,
                        burst_count |-> burst_count]
    IN  IF access_type = "None"
        THEN [ir_cache |-> ir_cache, d_cache |-> d_cache, call |-> NoCall]
        ELSE IF access_type = "IR"
        THEN [ir_cache |-> read(ir_cache, address, burst_count),
              d_cache  |-> d_cache, call |-> call]
        ELSE IF access_type = "DR"
        THEN [ir_cache |-> ir_cache,
              d_cache  |-> read(d_cache, address, burst_count), call |-> call]
        ELSE [ir_cache |-> ir_cache,
              d_cache  |-> write(d_cache, address, burst_count), call |-> call]

\* analyse that hands data reads to the instruction cache.
analyse_misroutes_reads(ir_cache, d_cache, mem) ==
    LET access_type == access_lookup(
                           WordValue(WordShiftRight(WordAnd(mem, access_mask), access_shift)))
        address     == WordValue(WordAnd(mem, address_mask))
        burst_count == WordValue(WordShiftRight(WordAnd(mem, burst_mask), burst_shift))
        call        == [access_type |-> access_type, address |-> address,
                        burst_count |-> burst_count]
    IN  IF access_type = "None"
        THEN [ir_cache |-> ir_cache, d_cache |-> d_cache, call |-> NoCall]
        ELSE IF access_type \in {"IR", "DR"}
        THEN [ir_cache |-> read(ir_cache, address, burst_count),
              d_cache  |-> d_cache, call |-> call]
        ELSE [ir_cache |-> ir_cache,
              d_cache  |-> write(d_cache, address, burst_count), call |-> call]

\* The body of analyse's loop for the record mem: the two caches after it, and
\* the call it made (NoCall when the record is skipped).
analyse(ir_cache, d_cache, mem) ==
    LET access_type == access_lookup(
                           WordValue(WordShiftRight(WordAnd(mem, access_mask), access_shift)))
        address     == WordValue(WordAnd(mem, address_mask))
        burst_count == WordValue(WordShiftRight(WordAnd(mem, burst_mask), burst_shift))
        call        == [access_type |-> access_type, address |-> address,
                        burst_count |-> burst_count]
    IN  IF access_type = "None"
        THEN [ir_cache |-> ir_cache, d_cache |-> d_cache, call |-> NoCall]
        ELSE IF access_type = "IR"
        THEN [ir_cache |-> read(ir_cache, address, burst_count),
              d_cache  |-> d_cache, call |-> call]
        ELSE IF access_type = "DR"
        THEN [ir_cache |-> ir_cache,
              d_cache  |-> read(d_cache, address, burst_count), call |-> call]
        ELSE [ir_cache |-> ir_cache,
              d_cache  |-> write(d_cache, address, burst_count), call |-> call]

\* The (l, k, n) of the two caches handed to analyse.
InstructionGeometry == <<2, 1, 2>>

DataGeometry == <<1, 2, 1>>

\* The addresses of the trace records (their bits 26..0).
RecordAddresses == {0, 1, 2, Pow2(23) + 1}

\* The 32-bit records of the trace: an access-type code, a burst count, an address.
TraceRecords ==
    { Digits(code, 3) \o Digits(burst, 2) \o Digits(address, 27) :
        code \in 0..MaxAccessCode, burst \in Bursts, address \in RecordAddresses }

TraceInit ==
    /\ instruction_cache = NewCache(InstructionGeometry[1], InstructionGeometry[2],
                                    InstructionGeometry[3])
    /\ data_cache = NewCache(DataGeometry[1], DataGeometry[2], DataGeometry[3])
    /\ handled = [count |-> 0, mem |-> Unused, call |-> NoCall]
    /\ NoCache
    /\ probe = Unused

Analyse ==
    \E mem \in TraceRecords :
        /\ handled.count < MaxRecords
        /\ ~instruction_cache.crashed
        /\ ~data_cache.crashed
        /\ LET after == analyse(instruction_cache, data_cache, mem)
           IN  /\ instruction_cache' = after.ir_cache
               /\ data_cache' = after.d_cache
               /\ handled' = [count |-> handled.count + 1, mem |-> mem,
                              call |-> after.call]
        /\ UNCHANGED << cacheVars, probe >>

TraceNext == Analyse

TraceSpec == TraceInit /\ [][TraceNext]_vars

(***************************************************************************)
(* The address decoding alone: the masks and shifts __init__ keeps for an  *)
(* l and an n, applied as read and write apply them.                       *)
(***************************************************************************)

\* Masks shifted one bit too few: the offset taken for 0 bits wide in set_mask.
Decoder_set_mask_unshifted(l, n) ==
    LET masks == calc_masks(l, n)
    IN  [ tag_mask    |-> masks.tag_mask,
          set_mask    |-> ParseBinary(Repeat(AddressBits - IntLog2(n), 0)
                                        \o Repeat(IntLog2(n), 1)),
          offset_mask |-> masks.offset_mask,
          set_shift   |-> IntLog2(l),
          tag_shift   |-> IntLog2(n) + IntLog2(l) ]

\* The fields of Cache(l, k, n) that the decoding reads.
Decoder(l, n) ==
    LET masks == calc_masks(l, n)
    IN  [ tag_mask    |-> masks.tag_mask,
          set_mask    |-> masks.set_mask,
          offset_mask |-> masks.offset_mask,
          set_shift   |-> IntLog2(l),
          tag_shift   |-> IntLog2(n) + IntLog2(l) ]

\* The (tag, set_num, offset) read and write compute for an address.
Decoded(l, n, address) ==
    << TagOf(Decoder(l, n), address),
       SetOf(Decoder(l, n), address),
       OffsetOf(Decoder(l, n), address) >>

\* The least and the greatest value of a field that is bits wide.
Extremes(bits) == {0, Pow2(bits) - 1}

\* The address with the given fields.
Encoded(l, n, triple) == triple[1] * n * l + triple[2] * l + triple[3]

\* The least and the greatest value, and the value of alternating bits 0101...
Samples(bits) == Extremes(bits) \cup {Pow2(bits) \div 3}

\* The triples tried first for an l and an n, and those tried against them.
Triples(l, n) ==
    Samples(AddressBits - IntLog2(l) - IntLog2(n)) \X Samples(IntLog2(n))
        \X Samples(IntLog2(l))

OtherTriples(l, n) ==
    Extremes(AddressBits - IntLog2(l) - IntLog2(n)) \X Extremes(IntLog2(n))
        \X Extremes(IntLog2(l))

DecodeInit ==
    /\ \E a \in 0..MaxExponent, b \in 0..MaxExponent :
          /\ a + b <= AddressBits
          /\ \E first \in Triples(Pow2(a), Pow2(b)), second \in OtherTriples(Pow2(a), Pow2(b)) :
                probe = [ l |-> Pow2(a), n |-> Pow2(b),
                          first |-> first, second |-> second,
                          decoded |-> Unused ]
    /\ NoCache
    /\ instruction_cache = Unused
    /\ data_cache = Unused
    /\ handled = Unused

Decode ==
    /\ probe.decoded = Unused
    /\ probe' = [probe EXCEPT !.decoded =
                    << Decoded(probe.l, probe.n, Encoded(probe.l, probe.n, probe.first)),
                       Decoded(probe.l, probe.n, Encoded(probe.l, probe.n, probe.second)) >>]
    /\ UNCHANGED << cacheVars, traceVars >>

DecodeNext == Decode

DecodeSpec == DecodeInit /\ [][DecodeNext]_vars

(***************************************************************************)
(* Properties of a call.  In a step, last' is the call made and the        *)
(* unprimed variables are the cache it was made on.                        *)
(***************************************************************************)

CallSet == SetOf(Self, last'.address)

CallTag == TagOf(Self, last'.address)

CallOffset == OffsetOf(Self, last'.address)

TagPresent == Contains(sets[CallSet], CallTag)

OffsetResident == TagPresent /\ dirs[CallSet][IndexOf(sets[CallSet], CallTag)][CallOffset]

SetFull == ~Contains(sets[CallSet], None)

\* C1: a read(address, B) whose tag is absent from the addressed set raises
\* misses by exactly 1, hits by exactly B and dr_accesses by exactly 1 + B, and
\* leaves the tag in the set with the addressed offset resident.
C1_ReadTagMissCounts ==
    [][ (last'.op = "read" /\ ~TagPresent) =>
            /\ misses' = misses + 1
            /\ hits' = hits + last'.burst_count
            /\ dr_accesses' = dr_accesses + 1 + last'.burst_count
            /\ Contains(sets'[CallSet], CallTag)
            /\ dirs'[CallSet][IndexOf(sets'[CallSet], CallTag)][CallOffset] ]_vars

\* C2: a read(address, B) whose tag is present but whose offset is not resident
\* marks the offset resident and raises misses by exactly 1, hits by exactly B
\* and dr_accesses by exactly 1 + B.
C2_ReadOffsetMissCounts ==
    [][ (last'.op = "read" /\ TagPresent /\ ~OffsetResident) =>
            /\ dirs'[CallSet][IndexOf(sets[CallSet], CallTag)][CallOffset]
            /\ misses' = misses + 1
            /\ hits' = hits + last'.burst_count
            /\ dr_accesses' = dr_accesses + 1 + last'.burst_count ]_vars

\* C3: a read of a tag absent from a set whose K lines all hold tags removes
\* exactly one tag from the set, the head of the LRU order, which is the tag
\* whose last allocation / read hit / write hit is the oldest; the other K - 1
\* tags stay in their lines; and the next access to the evicted tag is a tag
\* miss again (it allocates the tag anew).
C3_EvictsLeastRecentlyUsed ==
    [][ /\ (last'.op = "read" /\ ~TagPresent /\ SetFull) =>
               LET victim == Head(lru_queue[CallSet])
               IN  /\ victim \in Tags(sets[CallSet])
                   /\ victim = Head(recency[CallSet])
                   /\ Tags(sets'[CallSet]) = (Tags(sets[CallSet]) \ {victim}) \cup {CallTag}
                   /\ Cardinality(Tags(sets'[CallSet])) = Cardinality(Tags(sets[CallSet]))
                   /\ \A i \in DOMAIN sets[CallSet] :
                          sets[CallSet][i] # victim => sets'[CallSet][i] = sets[CallSet][i]
                   /\ last'.evicted = {victim}
        /\ (last.op = "read" /\ last.branch = "tag_miss"
              /\ CallSet = SetOf(Self, last.address) /\ CallTag \in last.evicted) =>
               /\ ~TagPresent
               /\ last'.branch = "tag_miss"
               /\ Contains(sets'[CallSet], CallTag) ]_vars

\* Within four access units a read has evicted the tag of the second line of
\* a two-line set: the tag allocated first had been touched since, so the
\* victim was not the tag allocated first.
C3_Witness ==
    /\ last.op = "read"
    /\ last.branch = "tag_miss"
    /\ Cardinality(last.evicted) = 1
    /\ dr_accesses + dw_accesses = 4
    /\ \E s \in DOMAIN sets :
          /\ s = SetOf(Self, last.address)
          /\ Cardinality(DOMAIN sets[s]) = 2
          /\ sets[s][1] = TagOf(Self, last.address)

\* C4: in every state and for every set, the tags of the set's LRU order are
\* exactly the tags held by its non-empty lines, each exactly once, and the LRU
\* order never holds more tags than the set has lines.
C4_LruOrderMatchesLines ==
    \A s \in DOMAIN sets :
        /\ QueueTags(lru_queue[s]) = Tags(sets[s])
        /\ \A i, j \in 1..Len(lru_queue[s]) :
               i # j => lru_queue[s][i] # lru_queue[s][j]
        /\ \A i, j \in DOMAIN sets[s] :
               (i # j /\ sets[s][i] # None) => sets[s][i] # sets[s][j]
        /\ Len(lru_queue[s]) <= Cardinality(DOMAIN sets[s])

\* An eviction has left a full two-line set whose LRU order is the reverse of
\* its line order.
C4_Witness ==
    /\ last.evicted # {}
    /\ \E s \in DOMAIN sets :
          /\ s = SetOf(Self, last.address)
          /\ Cardinality(Tags(sets[s])) = 2
          /\ lru_queue[s] = << sets[s][1], sets[s][0] >>

\* C5: a tag miss in a set with no empty line reuses the victim's line with
\* its directory cleared: right after the call the line's directory has exactly
\* one bit set, the addressed offset.
C5_EvictionClearsDirectory ==
    [][ (last'.op \in {"read", "write"} /\ ~TagPresent /\ SetFull) =>
            LET i == IndexOf(sets'[CallSet], CallTag)
            IN  \A o \in DOMAIN dirs'[CallSet][i] :
                    dirs'[CallSet][i][o] <=> (o = CallOffset) ]_vars

\* C6: on a fresh cache, read(address, 0) twice in a row leaves misses = 1,
\* hits = 1 and dr_accesses = 2.  (One access unit counted and a last call of
\* burst count 0 mean exactly one call has been made.)
C6_ReadTwiceOnColdCache ==
    [][ (/\ dr_accesses = 1 /\ dw_accesses = 0
         /\ last.op = "read" /\ last.burst_count = 0
         /\ last'.op = "read" /\ last'.burst_count = 0
         /\ last'.address = last.address) =>
            (misses' = 1 /\ hits' = 1 /\ dr_accesses' = 2) ]_vars

\* C7: a write(address, B) whose tag is absent from the addressed set
\* allocates a line, marks the addressed offset resident and raises misses by
\* exactly 1, hits by B and dw_accesses by 1 + B; a read(address, 0) right
\* after it is a hit (hits + 1, misses unchanged).
C7_WriteTagMissAllocates ==
    [][ /\ (last'.op = "write" /\ ~TagPresent) =>
               /\ Contains(sets'[CallSet], CallTag)
               /\ dirs'[CallSet][IndexOf(sets'[CallSet], CallTag)][CallOffset]
               /\ misses' = misses + 1
               /\ hits' = hits + last'.burst_count
               /\ dw_accesses' = dw_accesses + 1 + last'.burst_count
        /\ (/\ last.op = "write" /\ last.branch = "tag_miss"
            /\ last'.op = "read" /\ last'.burst_count = 0
            /\ last'.address = last.address) =>
               /\ last'.branch = "hit"
               /\ hits' = hits + 1
               /\ misses' = misses ]_vars

\* A read(address, 0) has hit right after the write that allocated its tag:
\* one access unit each, so two calls in all, the write a tag miss (the only
\* miss counted) and the read a hit.
C7_Witness ==
    /\ last.op = "read"
    /\ last.branch = "hit"
    /\ last.burst_count = 0
    /\ dr_accesses = 1
    /\ dw_accesses = 1
    /\ misses = 1
    /\ hits = 1

\* C8: a write(address, B) whose tag is present never counts a miss, whether
\* or not the offset was resident: it sets the offset's directory bit, moves
\* the tag to the tail of the LRU order, raises hits and dw_accesses by 1 + B
\* and leaves misses unchanged.
C8_WriteToPresentTagHits ==
    [][ (last'.op = "write" /\ TagPresent) =>
            /\ dirs'[CallSet][IndexOf(sets[CallSet], CallTag)][CallOffset]
            /\ lru_queue'[CallSet] = MovedToTail(lru_queue[CallSet], CallTag)
            /\ hits' = hits + 1 + last'.burst_count
            /\ dw_accesses' = dw_accesses + 1 + last'.burst_count
            /\ misses' = misses ]_vars

\* The second of two calls was a write to a present tag at an offset that was
\* not resident: both bits of the line are set, and a call sets one at most.
C8_Witness ==
    /\ last.op = "write"
    /\ last.branch = "tag_present"
    /\ dr_accesses + dw_accesses = 2
    /\ \E s \in DOMAIN sets :
          /\ s = SetOf(Self, last.address)
          /\ \A o \in DOMAIN dirs[s][0] : dirs[s][0][o]

\* C9: a read(address, B) whose tag is present and whose offset is resident
\* raises hits and dr_accesses by 1 + B, leaves misses, tags and directory bits
\* unchanged, and moves the tag to the tail of the set's LRU order, the other
\* tags keeping their order.
C9_ReadHitTouches ==
    [][ (last'.op = "read" /\ OffsetResident) =>
            /\ hits' = hits + 1 + last'.burst_count
            /\ dr_accesses' = dr_accesses + 1 + last'.burst_count
            /\ misses' = misses
            /\ sets' = sets
            /\ dirs' = dirs
            /\ lru_queue' = [lru_queue EXCEPT
                               ![CallSet] = MovedToTail(lru_queue[CallSet], CallTag)] ]_vars

\* The third of three calls was a read hit on the tag allocated first in a
\* two-line set: the hit moved it from the head of the LRU order to the tail.
C9_Witness ==
    /\ last.op = "read"
    /\ last.branch = "hit"
    /\ dr_accesses + dw_accesses = 3
    /\ \E s \in DOMAIN sets :
          /\ s = SetOf(Self, last.address)
          /\ Cardinality(Tags(sets[s])) = 2
          /\ sets[s][0] = TagOf(Self, last.address)
          /\ lru_queue[s] = << sets[s][1], sets[s][0] >>

\* C10: every read(address, B) raises dr_accesses by exactly 1 + B and leaves
\* dw_accesses unchanged, and every write(address, B) raises dw_accesses by
\* exactly 1 + B and leaves dr_accesses unchanged, whatever branch it takes.
C10_AccessUnits ==
    [][ /\ last'.op = "read" =>
               /\ dr_accesses' = dr_accesses + 1 + last'.burst_count
               /\ dw_accesses' = dw_accesses
        /\ last'.op = "write" =>
               /\ dw_accesses' = dw_accesses + 1 + last'.burst_count
               /\ dr_accesses' = dr_accesses ]_vars

\* A read with a burst has missed on an offset after a write with a burst.
C10_Witness ==
    /\ last.op = "read"
    /\ last.branch = "offset_miss"
    /\ last.burst_count = 1
    /\ dr_accesses = 2
    /\ dw_accesses = 2

(***************************************************************************)
(* Properties of analyse.  In a step, handled' is the record consumed and  *)
(* the call made for it.  The fields of a record, by its bit layout:       *)
(* bits 31..29, bits 28..27, bits 26..0.                                   *)
(***************************************************************************)

RecordCode(mem) == ParseBinary(SubSeq(mem, 1, 3))

RecordBurst(mem) == ParseBinary(SubSeq(mem, 4, 5))

RecordAddress(mem) == ParseBinary(SubSeq(mem, 6, 32))

Mapped(mem) == RecordCode(mem) \in {4, 6, 7}

\* C11: for every record whose access-type code is 4, 6 or 7, the address
\* handed to the cache is all 27 low bits of the record and the burst count
\* handed to it is bits 28..27, a value in 0..3.
C11_RecordFieldsHandedOver ==
    (handled.count > 0 /\ Mapped(handled.mem)) =>
        /\ handled.call.access_type # "None"
        /\ handled.call.address = RecordAddress(handled.mem)
        /\ handled.call.burst_count = RecordBurst(handled.mem)
        /\ handled.call.burst_count \in 0..3

\* C12: a record whose access-type code is not 4, 6 or 7 is dropped: no call
\* is made and neither cache changes; and the records after it are handled
\* still: a mapped record right after a dropped one makes its call and raises
\* the access counter of its cache by 1 + its burst count.
C12_UnmappedRecordDropped ==
    [][ /\ ~Mapped(handled'.mem) =>
               /\ handled'.call = NoCall
               /\ instruction_cache' = instruction_cache
               /\ data_cache' = data_cache
        /\ (handled.count > 0 /\ ~Mapped(handled.mem) /\ Mapped(handled'.mem)) =>
               /\ handled'.call.access_type # "None"
               /\ (instruction_cache'.dr_accesses + data_cache'.dr_accesses
                     + data_cache'.dw_accesses)
                  = (instruction_cache.dr_accesses + data_cache.dr_accesses
                       + data_cache.dw_accesses) + 1 + RecordBurst(handled'.mem) ]_vars

\* The second of two records was a data write with a burst, and it is the only
\* one counted: the first record was dropped and the loop went on.
C12_Witness ==
    /\ handled.count = 2
    /\ RecordCode(handled.mem) = 7
    /\ RecordBurst(handled.mem) = 2
    /\ data_cache.dw_accesses = 3
    /\ data_cache.dr_accesses = 0
    /\ instruction_cache.dr_accesses = 0

\* C13: an InstructionRead record (code 4) changes the instruction cache only,
\* by a read; a DataRead record (code 6) and a DataWrite record (code 7) change
\* the data cache only, by a read and a write.  What a record does to a cache
\* is a function of that cache and the record alone, so each cache's state is
\* that of its own records, in trace order.
C13_CachesIndependent ==
    [][ LET code        == RecordCode(handled'.mem)
            address     == handled'.call.address
            burst_count == handled'.call.burst_count
        IN  /\ code = 4 =>
                   /\ instruction_cache' = read(instruction_cache, address, burst_count)
                   /\ instruction_cache' # instruction_cache
                   /\ data_cache' = data_cache
            /\ code = 6 =>
                   /\ data_cache' = read(data_cache, address, burst_count)
                   /\ data_cache' # data_cache
                   /\ instruction_cache' = instruction_cache
            /\ code = 7 =>
                   /\ data_cache' = write(data_cache, address, burst_count)
                   /\ data_cache' # data_cache
                   /\ instruction_cache' = instruction_cache ]_vars

\* An instruction read, then a data write: each cache has counted its own
\* record and nothing of the other's.
C13_Witness ==
    /\ handled.count = 2
    /\ RecordCode(handled.mem) = 7
    /\ instruction_cache.dr_accesses = 1
    /\ instruction_cache.dw_accesses = 0
    /\ data_cache.dw_accesses = 1 + RecordBurst(handled.mem)
    /\ data_cache.dr_accesses = 0

(***************************************************************************)
(* Properties of the construction and of the address decoding.             *)
(***************************************************************************)

\* The l, k and n a cache was constructed with, read off its lists.
LineBytes == Cardinality(DOMAIN dirs[0][0])

Associativity == Cardinality(DOMAIN sets[0])

SetCount == Cardinality(DOMAIN sets)

IsPowerOfTwo(x) == x >= 1 /\ Pow2(IntLog2(x)) = x

ValidGeometry(l, k, n) ==
    /\ IsPowerOfTwo(l)
    /\ IsPowerOfTwo(k)
    /\ IsPowerOfTwo(n)
    /\ IntLog2(l) + IntLog2(n) <= AddressBits

\* C14: a cache whose l, k or n is no power of two (or whose offset and set
\* bits exceed 27) fails at construction: it never accepts a read or a write.
C14_InvalidGeometryRejected ==
    ~ValidGeometry(LineBytes, Associativity, SetCount) => last.op = "none"

\* C15: for l and n powers of two with log2(l) + log2(n) <= 27 and a tag, a
\* set index and an offset within their ranges, decoding the address
\* tag * n * l + set * l + offset gives back (tag, set, offset); so two
\* addresses that decode to the same triple are equal.
C15_DecodeRoundTrips ==
    (probe.decoded # Unused) =>
        /\ probe.decoded[1] = probe.first
        /\ probe.decoded[2] = probe.second
        /\ (probe.decoded[1] = probe.decoded[2] =>
               Encoded(probe.l, probe.n, probe.first)
                  = Encoded(probe.l, probe.n, probe.second))

\* Decoded: the all-ones 27-bit address and the address 0, for the data
\* cache's l = 16 and n = 256 of main.
C15_Witness ==
    /\ probe.decoded # Unused
    /\ probe.l = 16
    /\ probe.n = 256
    /\ probe.first = << Pow2(15) - 1, 255, 15 >>
    /\ Encoded(probe.l, probe.n, probe.first) = Pow2(AddressBits) - 1
    /\ probe.second = << 0, 0, 0 >>

(***************************************************************************)
(* Further properties of a cache under read and write calls.               *)
(***************************************************************************)

\* C16: hits + misses need not equal dr_accesses + dw_accesses: the first
\* read on a fresh cache already leaves the two sums different.
C16_CountersDiverge ==
    [][ (dr_accesses = 0 /\ dw_accesses = 0 /\ last'.op = "read") =>
            hits' + misses' # dr_accesses' + dw_accesses' ]_vars

\* One read with a burst has been made: three access units, no hit or miss.
C16_Witness ==
    /\ last.op = "read"
    /\ last.burst_count = 2
    /\ dr_accesses = 3
    /\ dw_accesses = 0
    /\ hits + misses # dr_accesses + dw_accesses

\* A line with no tag has no directory bit set; a line with a tag has one at
\* least.
LineStates ==
    \A s \in DOMAIN sets : \A i \in DOMAIN sets[s] :
        /\ sets[s][i] = None => \A o \in DOMAIN dirs[s][i] : ~dirs[s][i][o]
        /\ sets[s][i] # None => \E o \in DOMAIN dirs[s][i] : dirs[s][i][o]

\* C17: every line goes Empty -> PartiallyResident -> FullyResident: in every
\* state a line with no tag has all directory bits false and a line with a tag
\* has a directory bit true, and a line that holds a tag never becomes empty
\* again.
C17_LineStateMachine ==
    /\ []LineStates
    /\ [][ \A s \in DOMAIN sets : \A i \in DOMAIN sets[s] :
               sets[s][i] # None => sets'[s][i] # None ]_vars

\* The tag of a line with all its directory bits set has been replaced by
\* another tag, while the other line of the set is empty still.
C17_Witness ==
    /\ last.evicted # {}
    /\ \E s \in DOMAIN sets :
          /\ Cardinality(DOMAIN sets) = 2
          /\ s = SetOf(Self, last.address)
          /\ \A o \in DOMAIN dirs[s][0] : dirs[s][0][o]
          /\ \E t \in DOMAIN sets : sets[t][0] = None

\* C18: in every state hits <= dr_accesses + dw_accesses, and a read or write
\* with burst count B raises hits by 1 + B at most.
C18_HitsWithinAccesses ==
    /\ [](hits <= dr_accesses + dw_accesses)
    /\ [][ hits' <= hits + 1 + last'.burst_count ]_vars

\* A read hit with a burst has raised hits by all its three access units.
C18_Witness ==
    /\ last.op = "read"
    /\ last.branch = "hit"
    /\ last.burst_count = 2
    /\ dr_accesses + dw_accesses = 4
    /\ hits = 3

\* C19: the consistency-error branches are never taken: lru_reshuffle finds
\* its tag in the LRU queue (nothing 'Unexpected' is printed), no exception
\* leaves read or write, and every eviction finds a non-empty LRU queue whose
\* head is a tag held by a line of the set.
C19_NoConsistencyError ==
    /\ [](~unexpected /\ ~crashed)
    /\ [][ (last'.op \in {"read", "write"} /\ ~TagPresent /\ SetFull) =>
               /\ lru_queue[CallSet] # <<>>
               /\ Contains(sets[CallSet], Head(lru_queue[CallSet])) ]_vars

\* A write has evicted a tag from a set whose LRU queue a hit had reshuffled.
C19_Witness ==
    /\ last.op = "write"
    /\ last.branch = "tag_miss"
    /\ last.evicted # {}
    /\ hits > 0
    /\ ~unexpected
    /\ ~crashed

=============================================================================
